---- MODULE Spec2Model ----
(***************************************************************************)
(* FakePhoenixServer (src/src/thenvoi_testing/fakes/phoenix_server.py).    *)
(*                                                                         *)
(* The server object, the connections the websockets library hands to its  *)
(* handler, the per-connection receive loop with its suspension points     *)
(* (every `await ...send(...)`), and the test-control calls start, stop    *)
(* and simulate_server_event.                                              *)
(*                                                                         *)
(* Python values and JSON texts are kept apart: a Python value is a tagged *)
(* tuple (None, Str, List, Dict), a JSON text is another tagged tuple      *)
(* (JNull, JString, JArray, JObject, or Garbage for a text that is not     *)
(* JSON); json_dumps and json_loads convert between the two.               *)
(***************************************************************************)
EXTENDS Integers, Sequences, FiniteSets, TLC

VARIABLES
    server,            \* self.server: "None", or a Server that is "listening" or "closed"
    client_websocket,  \* self.client_websocket: NoConn (None) or a connection
    conn,              \* transport state of each connection: "unused", "open", "closed"
    pc,                \* position of handler(websocket) for each connection
    local,             \* handle_message's locals while it is suspended in a send
    sent,              \* every text frame written so far, in write order
    test,              \* position of the test task: "idle" or "in_stop"
    last,              \* the step taken last: operation, inputs, outcome
    tools,             \* a FakeAgentTools instance: its five tracking lists
    calls,             \* the number of calls made so far of each of its methods
    pager,             \* a call of a pagination helper: its arguments, locals, position
    fixture,           \* the api_client fixture: the environment it reads, its outcome
    valid_topics       \* self.valid_topics: the topics a join is accepted for

vars == <<server, client_websocket, conn, pc, local, sent, test, last, tools, calls, pager, fixture, valid_topics>>

---------------------------------------------------------------------------
(* Bounds of the model *)

MaxSent == 2

(* The connections the library can hand to handler; each is accepted once. *)
Conns == {1, 2}
NoConn == 0

---------------------------------------------------------------------------
(* Python values *)

None == <<"None">>
Str(s) == <<"str", s>>
PyInt(n) == <<"int", n>>
List(items) == <<"list", items>>
Dict(pairs) == <<"dict", pairs>>

(* JSON texts *)

JNull == <<"null">>
JString(s) == <<"string", s>>
JNumber(n) == <<"number", n>>
JArray(items) == <<"array", items>>
JObject(members) == <<"object", members>>
Garbage == <<"garbage">>

RECURSIVE json_dumps(_)
json_dumps(v) ==
    CASE v[1] = "None" -> JNull
      [] v[1] = "str"  -> JString(v[2])
      [] v[1] = "int"  -> JNumber(v[2])
      [] v[1] = "list" -> JArray([i \in DOMAIN v[2] |-> json_dumps(v[2][i])])
      [] v[1] = "dict" ->
            JObject([i \in DOMAIN v[2] |-> <<v[2][i][1], json_dumps(v[2][i][2])>>])

Decodable(t) == t[1] \in {"null", "string", "number", "array", "object"}

RECURSIVE json_loads(_)
json_loads(t) ==
    CASE t[1] = "null"   -> None
      [] t[1] = "string" -> Str(t[2])
      [] t[1] = "number" -> PyInt(t[2])
      [] t[1] = "array"  -> List([i \in DOMAIN t[2] |-> json_loads(t[2][i])])
      [] t[1] = "object" ->
            Dict([i \in DOMAIN t[2] |-> <<t[2][i][1], json_loads(t[2][i][2])>>])

---------------------------------------------------------------------------
(* Inputs: the frames a peer sends and the arguments a test passes.  Refs   *)
(* are strings or null and topics and events are strings, as on the wire.  *)

Topics == {Str("test-topic"), Str("test-topic-b"), Str("nonexistent-topic")}
RefPairs == {<<None, None>>, <<Str("1"), Str("2")>>}
Events == {Str("phx_join"), Str("phx_leave")}
EmptyDict == Dict(<<>>)

(* A 5-element frame whose event is neither phx_join nor phx_leave. *)
OtherEvent == List(<<Str("1"), Str("2"), Str("test-topic"), Str("new_message"), EmptyDict>>)

Envelopes ==
    {List(<<r[1], r[2], t, e, EmptyDict>>) : r \in RefPairs, t \in Topics, e \in Events}
        \cup {OtherEvent}

(* Decodable texts that are no 5-element array, and one undecodable text. *)
ShortArray == JArray(<<JNull, JNull, JString("test-topic"), JString("phx_join")>>)
LongArray ==
    JArray(<<JNull, JNull, JString("test-topic"), JString("phx_join"),
             JObject(<<>>), JNull>>)
NotAnArray == JObject(<< <<"event", JString("phx_join")>> >>)
OddTexts == {ShortArray, LongArray, NotAnArray}

InboundTexts == {json_dumps(d) : d \in Envelopes} \cup OddTexts \cup {Garbage}

(* Arguments of simulate_server_event; Omitted stands for join_ref not given. *)
Omitted == <<"omitted">>
SimTopics == {Str("test-topic"), Str("nonexistent-topic")}
SimEvents == {Str("new_message")}
SimPayloads == {Dict(<< <<"text", Str("hello")>> >>)}
SimJoinRefs == {Omitted, Str("1")}

---------------------------------------------------------------------------
(* FakePhoenixServer *)

ValidTopics == {Str("test-topic"), Str("test-topic-b")}

is_valid_topic_first_only(topic) == topic = Str("test-topic")

is_valid_topic(topic) == topic \in valid_topics

IsList(data) == data[1] = "list"

WellFormed_at_least_five(data) == IsList(data) /\ Len(data[2]) >= 5

(* handle_message, line 79: the data is unpacked only when this holds *)
WellFormed(data) == IsList(data) /\ Len(data[2]) = 5

Event(data) == data[2][4]

OkPayload == Dict(<< <<"status", Str("ok")>>, <<"response", EmptyDict>> >>)
ErrorPayload ==
    Dict(<< <<"status", Str("error")>>,
            <<"response", Dict(<< <<"reason", Str("unmatched topic")>> >>)>> >>)

join_reply_rejects_rejoin(data) ==
    LET join_ref == data[2][1]
        msg_ref == data[2][2]
        topic == data[2][3]
        joined == \E i \in DOMAIN sent :
                      /\ sent[i].text[2][3] = json_dumps(topic)
                      /\ sent[i].text[2][4] = JString("phx_reply")
    IN  IF is_valid_topic(topic) /\ ~joined
        THEN List(<<join_ref, msg_ref, topic, Str("phx_reply"), OkPayload>>)
        ELSE List(<<join_ref, msg_ref, topic, Str("phx_reply"), ErrorPayload>>)

join_reply_error_without_refs(data) ==
    LET join_ref == data[2][1]
        msg_ref == data[2][2]
        topic == data[2][3]
    IN  IF is_valid_topic(topic)
        THEN List(<<join_ref, msg_ref, topic, Str("phx_reply"), OkPayload>>)
        ELSE List(<<None, None, topic, Str("phx_reply"), ErrorPayload>>)

(* handle_message, lines 86-103 *)
join_reply(data) ==
    LET join_ref == data[2][1]
        msg_ref == data[2][2]
        topic == data[2][3]
    IN  IF is_valid_topic(topic)
        THEN List(<<join_ref, msg_ref, topic, Str("phx_reply"), OkPayload>>)
        ELSE List(<<join_ref, msg_ref, topic, Str("phx_reply"), ErrorPayload>>)

leave_reply_is_close(data) ==
    List(<<data[2][1], data[2][1], data[2][3], Str("phx_close"), EmptyDict>>)

(* handle_message, lines 107-113 *)
leave_reply(data) ==
    LET join_ref == data[2][1]
        msg_ref == data[2][2]
        topic == data[2][3]
    IN  List(<<join_ref, msg_ref, topic, Str("phx_reply"), OkPayload>>)

close_message_with_msg_ref(data) ==
    LET join_ref == data[2][1]
        msg_ref == data[2][2]
        topic == data[2][3]
    IN  List(<<join_ref, msg_ref, topic, Str("phx_close"), EmptyDict>>)

close_message_null_payload(data) ==
    LET join_ref == data[2][1]
        topic == data[2][3]
    IN  List(<<join_ref, join_ref, topic, Str("phx_close"), None>>)

(* handle_message, line 117 *)
close_message(data) ==
    LET join_ref == data[2][1]
        topic == data[2][3]
    IN  List(<<join_ref, join_ref, topic, Str("phx_close"), EmptyDict>>)

(* simulate_server_event, line 125: join_ref defaults to None *)
JoinRefArg(join_ref) == IF join_ref = Omitted THEN None ELSE join_ref

sim_message_ref_in_both_slots(topic, event, payload, join_ref) ==
    List(<<JoinRefArg(join_ref), JoinRefArg(join_ref), topic, event, payload>>)

(* simulate_server_event, line 136 *)
sim_message(topic, event, payload, join_ref) ==
    List(<<JoinRefArg(join_ref), None, topic, event, payload>>)

sim_guard_always == TRUE

(* simulate_server_event, line 135: `if self.client_websocket:` *)
sim_guard == client_websocket # NoConn

stop_guard_always == TRUE

(* stop, line 145: `if self.server:` *)
stop_guard == server # "None"

---------------------------------------------------------------------------
(* ServerConnection.send: writes the text when the connection is open,     *)
(* raises ConnectionClosed when it is not; None has no send at all.        *)

Attached == client_websocket # NoConn /\ conn[client_websocket] = "open"

SendError(ws) ==
    IF ws = NoConn THEN "AttributeError"
    ELSE IF conn[ws] = "open" THEN "none" ELSE "ConnectionClosed"

Written(ws, by, text) == Append(sent, [to |-> ws, by |-> by, text |-> text])

NoLocal == [data |-> None, mark |-> 0, ws |-> NoConn]

(* Frames still owed by handlers suspended between a leave's two sends. *)
Reserved == Cardinality({c \in Conns : pc[c] = "leave_close"})

Need(data) ==
    IF IsList(data) /\ Len(data[2]) >= 4
    THEN IF data[2][4] = Str("phx_leave") THEN 2
         ELSE IF data[2][4] = Str("phx_join") THEN 1 ELSE 0
    ELSE 0

NeedOf(message) == IF Decodable(message) THEN Need(json_loads(message)) ELSE 0

(* There is room in the log for n more frames, below a cap on its length. *)
Room(n, cap) == Len(sent) + Reserved + n <= cap

(* FakeAgentTools.__init__, lines 34-39 *)
FakeAgentTools ==
    [messages_sent |-> <<>>, events_sent |-> <<>>, participants_added |-> <<>>,
     participants_removed |-> <<>>, tool_calls |-> <<>>]

(* no test session has been set up *)
NoSession ==
    [at |-> "unset",
     env |-> [name \in {"THENVOI_API_KEY", "TEST_AGENT_ID", "THENVOI_API_KEY_2",
                        "THENVOI_API_KEY_USER", "THENVOI_BASE_URL"} |-> <<"unset">>],
     installed |-> FALSE, imported |-> FALSE,
     returned |-> None, raised |-> "none", message |-> <<>>]

(* no pagination helper has been called *)
NoCall ==
    [fn |-> "none", at |-> "idle", predicate |-> None, page_size |-> None,
     kwargs |-> None, page |-> 0, all_items |-> <<>>, requests |-> <<>>,
     responses |-> <<>>, returned |-> None]

Methods ==
    {"send_message", "send_event", "add_participant", "remove_participant",
     "get_participants", "lookup_peers", "create_chatroom", "get_tool_schemas",
     "get_anthropic_tool_schemas", "get_openai_tool_schemas", "execute_tool_call"}

Step(op, by, data, raised, mark, ws) ==
    [op |-> op, by |-> by, data |-> data, raised |-> raised,
     attached |-> Attached, was |-> server, mark |-> mark, ws |-> ws]

Init ==
    /\ server = "None"
    /\ client_websocket = NoConn
    /\ conn = [c \in Conns |-> "unused"]
    /\ pc = [c \in Conns |-> "idle"]
    /\ local = [c \in Conns |-> NoLocal]
    /\ sent = <<>>
    /\ test = "idle"
    /\ last = Step("init", NoConn, None, "none", 0, NoConn)
    /\ tools = FakeAgentTools
    /\ calls = [m \in Methods |-> 0]
    /\ pager = NoCall
    /\ fixture = NoSession
    /\ valid_topics = ValidTopics

---------------------------------------------------------------------------
start_stores_before_bind ==
    /\ test = "idle"
    /\ \E bind_ok \in (IF server = "listening" THEN {FALSE} ELSE BOOLEAN) :
          /\ server' = (IF bind_ok THEN "listening" ELSE "closed")
          /\ last' = Step("start", NoConn, None,
                          IF bind_ok THEN "none" ELSE "OSError", 0, NoConn)
    /\ UNCHANGED <<client_websocket, conn, pc, local, sent, test, tools, calls, pager, fixture, valid_topics>>

(* start, lines 139-141.  serve() binds the port: it raises OSError when   *)
(* the bind fails, which is certain while this server already listens on   *)
(* the port, and then self.server keeps its old value.                     *)
start ==
    /\ test = "idle"
    /\ \E bind_ok \in (IF server = "listening" THEN {FALSE} ELSE BOOLEAN) :
          /\ server' = (IF bind_ok THEN "listening" ELSE server)
          /\ last' = Step("start", NoConn, None,
                          IF bind_ok THEN "none" ELSE "OSError", 0, NoConn)
    /\ UNCHANGED <<client_websocket, conn, pc, local, sent, test, tools, calls, pager, fixture, valid_topics>>

stop_forgets_server ==
    /\ test = "idle"
    /\ IF stop_guard
       THEN IF server = "None"
            THEN /\ last' = Step("stop", NoConn, None, "AttributeError", 0, NoConn)
                 /\ UNCHANGED <<server, conn, test>>
            ELSE /\ server' = "None"
                 /\ conn' = [c \in Conns |-> IF conn[c] = "open" THEN "closed" ELSE conn[c]]
                 /\ test' = "in_stop"
                 /\ last' = Step("stop", NoConn, None, "none", 0, NoConn)
       ELSE /\ last' = Step("stop", NoConn, None, "none", 0, NoConn)
            /\ UNCHANGED <<server, conn, test>>
    /\ UNCHANGED <<client_websocket, pc, local, sent, tools, calls, pager, fixture, valid_topics>>

stop_leaves_connections_open ==
    /\ test = "idle"
    /\ IF stop_guard
       THEN IF server = "None"
            THEN /\ last' = Step("stop", NoConn, None, "AttributeError", 0, NoConn)
                 /\ UNCHANGED <<server, conn, test>>
            ELSE /\ server' = "closed"
                 /\ test' = "in_stop"
                 /\ last' = Step("stop", NoConn, None, "none", 0, NoConn)
                 /\ UNCHANGED conn
       ELSE /\ last' = Step("stop", NoConn, None, "none", 0, NoConn)
            /\ UNCHANGED <<server, conn, test>>
    /\ UNCHANGED <<client_websocket, pc, local, sent, tools, calls, pager, fixture, valid_topics>>

(* stop, lines 143-147.  Server.close() stops listening and closes every   *)
(* open connection; wait_closed() suspends until the handlers have ended.  *)
stop ==
    /\ test = "idle"
    /\ IF stop_guard
       THEN IF server = "None"
            THEN /\ last' = Step("stop", NoConn, None, "AttributeError", 0, NoConn)
                 /\ UNCHANGED <<server, conn, test>>
            ELSE /\ server' = "closed"
                 /\ conn' = [c \in Conns |-> IF conn[c] = "open" THEN "closed" ELSE conn[c]]
                 /\ test' = "in_stop"
                 /\ last' = Step("stop", NoConn, None, "none", 0, NoConn)
       ELSE /\ last' = Step("stop", NoConn, None, "none", 0, NoConn)
            /\ UNCHANGED <<server, conn, test>>
    /\ UNCHANGED <<client_websocket, pc, local, sent, tools, calls, pager, fixture, valid_topics>>

(* stop, line 147: wait_closed() returns once no handler is running *)
stop_return ==
    /\ test = "in_stop"
    /\ \A c \in Conns : pc[c] \notin {"recv", "leave_close"}
    /\ test' = "idle"
    /\ last' = Step("stop_return", NoConn, None, "none", 0, NoConn)
    /\ UNCHANGED <<server, client_websocket, conn, pc, local, sent, tools, calls, pager, fixture, valid_topics>>

accept_keeps_first(c) ==
    /\ server = "listening"
    /\ conn[c] = "unused"
    /\ \A d \in Conns : d < c => conn[d] # "unused"
    /\ conn' = [conn EXCEPT ![c] = "open"]
    /\ pc' = [pc EXCEPT ![c] = "recv"]
    /\ client_websocket' = (IF client_websocket = NoConn THEN c ELSE client_websocket)
    /\ last' = Step("accept", c, None, "none", 0, NoConn)
    /\ UNCHANGED <<server, local, sent, test, tools, calls, pager, fixture, valid_topics>>

(* handler, lines 61-63: the library accepts a peer and runs handler on    *)
(* the new connection, which first overwrites self.client_websocket.       *)
accept(c) ==
    /\ server = "listening"
    /\ conn[c] = "unused"
    /\ \A d \in Conns : d < c => conn[d] # "unused"
    /\ conn' = [conn EXCEPT ![c] = "open"]
    /\ pc' = [pc EXCEPT ![c] = "recv"]
    /\ client_websocket' = c
    /\ last' = Step("accept", c, None, "none", 0, NoConn)
    /\ UNCHANGED <<server, local, sent, test, tools, calls, pager, fixture, valid_topics>>

(* The peer closes its connection. *)
disconnect(c) ==
    /\ conn[c] = "open"
    /\ conn' = [conn EXCEPT ![c] = "closed"]
    /\ last' = Step("disconnect", c, None, "none", 0, NoConn)
    /\ UNCHANGED <<server, client_websocket, pc, local, sent, test, tools, calls, pager, fixture, valid_topics>>

handler_exit_clears_reference(c) ==
    /\ pc[c] = "recv"
    /\ conn[c] = "closed"
    /\ pc' = [pc EXCEPT ![c] = "done"]
    /\ client_websocket' = (IF client_websocket = c THEN NoConn ELSE client_websocket)
    /\ last' = Step("handler_exit", c, None, "none", 0, NoConn)
    /\ UNCHANGED <<server, conn, local, sent, test, tools, calls, pager, fixture, valid_topics>>

(* handler, line 65: `async for` ends when the connection is closed *)
handler_exit(c) ==
    /\ pc[c] = "recv"
    /\ conn[c] = "closed"
    /\ pc' = [pc EXCEPT ![c] = "done"]
    /\ last' = Step("handler_exit", c, None, "none", 0, NoConn)
    /\ UNCHANGED <<server, client_websocket, conn, local, sent, test, tools, calls, pager, fixture, valid_topics>>

Raise_keeps_serving(c, op, data, exc, mark, ws) ==
    /\ pc' = [pc EXCEPT ![c] = "recv"]
    /\ local' = [local EXCEPT ![c] = NoLocal]
    /\ last' = Step(op, c, data, exc, mark, ws)
    /\ UNCHANGED <<server, client_websocket, conn, sent, test, tools, calls, pager, fixture, valid_topics>>

(* handler, lines 68-69: an exception ends the loop; handler returns and   *)
(* the library closes the connection it was serving.                       *)
Raise(c, op, data, exc, mark, ws) ==
    /\ pc' = [pc EXCEPT ![c] = "done"]
    /\ conn' = [conn EXCEPT ![c] = "closed"]
    /\ local' = [local EXCEPT ![c] = NoLocal]
    /\ last' = Step(op, c, data, exc, mark, ws)
    /\ UNCHANGED <<server, client_websocket, sent, test, tools, calls, pager, fixture, valid_topics>>

Return_ends_the_loop(c, data) ==
    /\ pc' = [pc EXCEPT ![c] = "done"]
    /\ conn' = [conn EXCEPT ![c] = "closed"]
    /\ last' = Step("handle_message", c, data, "none", Len(sent), client_websocket)
    /\ UNCHANGED <<server, client_websocket, local, sent, test, tools, calls, pager, fixture, valid_topics>>

(* handle_message returns without sending *)
Return(c, data) ==
    /\ last' = Step("handle_message", c, data, "none", Len(sent), client_websocket)
    /\ UNCHANGED <<server, client_websocket, conn, pc, local, sent, test, tools, calls, pager, fixture, valid_topics>>

SendReply_on_own_connection(c, data, reply, next) ==
    LET ws == c IN
    IF SendError(ws) = "none"
    THEN /\ sent' = Written(ws, c, json_dumps(reply))
         /\ pc' = [pc EXCEPT ![c] = next]
         /\ local' = [local EXCEPT ![c] =
                         IF next = "leave_close"
                         THEN [data |-> data, mark |-> Len(sent), ws |-> ws]
                         ELSE NoLocal]
         /\ last' = Step("handle_message", c, data, "none", Len(sent), ws)
         /\ UNCHANGED <<server, client_websocket, conn, test, tools, calls, pager, fixture, valid_topics>>
    ELSE Raise(c, "handle_message", data, SendError(ws), Len(sent), ws)

(* `await self.client_websocket.send(json.dumps(reply))`, lines 104, 114 *)
SendReply(c, data, reply, next) ==
    LET ws == client_websocket IN
    IF SendError(ws) = "none"
    THEN /\ sent' = Written(ws, c, json_dumps(reply))
         /\ pc' = [pc EXCEPT ![c] = next]
         /\ local' = [local EXCEPT ![c] =
                         IF next = "leave_close"
                         THEN [data |-> data, mark |-> Len(sent), ws |-> ws]
                         ELSE NoLocal]
         /\ last' = Step("handle_message", c, data, "none", Len(sent), ws)
         /\ UNCHANGED <<server, client_websocket, conn, test, tools, calls, pager, fixture, valid_topics>>
    ELSE Raise(c, "handle_message", data, SendError(ws), Len(sent), ws)

handle_message_ignores_unmatched(c, data) ==
    IF client_websocket = NoConn THEN Return(c, data)
    ELSE IF ~WellFormed(data) THEN Return(c, data)
    ELSE IF Event(data) = Str("phx_join")
         THEN IF is_valid_topic(data[2][3])
              THEN SendReply(c, data, join_reply(data), "recv")
              ELSE Return(c, data)
    ELSE IF Event(data) = Str("phx_leave")
         THEN SendReply(c, data, leave_reply(data), "leave_close")
    ELSE Return(c, data)

handle_message_leave_without_close(c, data) ==
    IF client_websocket = NoConn THEN Return(c, data)
    ELSE IF ~WellFormed(data) THEN Return(c, data)
    ELSE IF Event(data) = Str("phx_join")
         THEN SendReply(c, data, join_reply(data), "recv")
    ELSE IF Event(data) = Str("phx_leave")
         THEN SendReply(c, data, leave_reply(data), "recv")
    ELSE Return(c, data)

handle_message_join_then_close(c, data) ==
    IF client_websocket = NoConn THEN Return(c, data)
    ELSE IF ~WellFormed(data) THEN Return(c, data)
    ELSE IF Event(data) = Str("phx_join")
         THEN SendReply(c, data, join_reply(data), "leave_close")
    ELSE IF Event(data) = Str("phx_leave")
         THEN SendReply(c, data, leave_reply(data), "leave_close")
    ELSE Return(c, data)

(* handle_message, lines 76-114, up to its first suspension *)
handle_message(c, data) ==
    IF client_websocket = NoConn THEN Return(c, data)
    ELSE IF ~WellFormed(data) THEN Return(c, data)
    ELSE IF Event(data) = Str("phx_join")
         THEN SendReply(c, data, join_reply(data), "recv")
    ELSE IF Event(data) = Str("phx_leave")
         THEN SendReply(c, data, leave_reply(data), "leave_close")
    ELSE Return(c, data)

(* handler, lines 65-67: one inbound text is decoded and handled *)
receive(c, message) ==
    /\ pc[c] = "recv"
    /\ conn[c] = "open"
    /\ IF Decodable(message)
       THEN handle_message(c, json_loads(message))
       ELSE Raise(c, "json_loads", None, "JSONDecodeError", Len(sent), client_websocket)

(* handle_message, lines 116-118: resumed after the reply's send *)
leave_close(c) ==
    /\ pc[c] = "leave_close"
    /\ LET ws == client_websocket
           data == local[c].data
       IN  IF SendError(ws) = "none"
           THEN /\ sent' = Written(ws, c, json_dumps(close_message(data)))
                /\ pc' = [pc EXCEPT ![c] = "recv"]
                /\ local' = [local EXCEPT ![c] = NoLocal]
                /\ last' = Step("leave_close", c, data, "none", local[c].mark, local[c].ws)
                /\ UNCHANGED <<server, client_websocket, conn, test, tools, calls, pager, fixture, valid_topics>>
           ELSE Raise(c, "leave_close", data, SendError(ws), local[c].mark, local[c].ws)

simulate_server_event_lost_during_leave(topic, event, payload, join_ref) ==
    /\ test = "idle"
    /\ LET ws == client_websocket
           args == List(<<topic, event, payload, join_ref>>)
       IN  IF sim_guard /\ \A c \in Conns : pc[c] # "leave_close"
           THEN IF SendError(ws) = "none"
                THEN /\ sent' = Written(ws, NoConn,
                                    json_dumps(sim_message(topic, event, payload, join_ref)))
                     /\ last' = Step("simulate_server_event", NoConn, args, "none",
                                     Len(sent), ws)
                ELSE /\ last' = Step("simulate_server_event", NoConn, args,
                                     SendError(ws), Len(sent), ws)
                     /\ UNCHANGED sent
           ELSE /\ last' = Step("simulate_server_event", NoConn, args, "none",
                                Len(sent), ws)
                /\ UNCHANGED sent
    /\ UNCHANGED <<server, client_websocket, conn, pc, local, test, tools, calls, pager, fixture, valid_topics>>

(* simulate_server_event, lines 120-137 *)
simulate_server_event(topic, event, payload, join_ref) ==
    /\ test = "idle"
    /\ LET ws == client_websocket
           args == List(<<topic, event, payload, join_ref>>)
       IN  IF sim_guard
           THEN IF SendError(ws) = "none"
                THEN /\ sent' = Written(ws, NoConn,
                                    json_dumps(sim_message(topic, event, payload, join_ref)))
                     /\ last' = Step("simulate_server_event", NoConn, args, "none",
                                     Len(sent), ws)
                ELSE /\ last' = Step("simulate_server_event", NoConn, args,
                                     SendError(ws), Len(sent), ws)
                     /\ UNCHANGED sent
           ELSE /\ last' = Step("simulate_server_event", NoConn, args, "none",
                                Len(sent), ws)
                /\ UNCHANGED sent
    /\ UNCHANGED <<server, client_websocket, conn, pc, local, test, tools, calls, pager, fixture, valid_topics>>

Next ==
    \/ start
    \/ stop
    \/ stop_return
    \/ \E c \in Conns : accept(c)
    \/ \E c \in Conns : disconnect(c)
    \/ \E c \in Conns : handler_exit(c)
    \/ \E c \in Conns, message \in InboundTexts :
          Room(NeedOf(message), MaxSent) /\ receive(c, message)
    \/ \E c \in Conns : leave_close(c)
    \/ \E topic \in SimTopics, event \in SimEvents, payload \in SimPayloads,
          join_ref \in SimJoinRefs :
          Room(1, MaxSent) /\ simulate_server_event(topic, event, payload, join_ref)

Spec == Init /\ [][Next]_vars

---------------------------------------------------------------------------
(* The same server with one more frame of room in the log and fewer        *)
(* inputs: one phx_leave, one phx_join of an unmatched topic, one pushed   *)
(* event.  The handler tasks and the pending stop() are scheduled fairly:  *)
(* the event loop runs every task that is ready.                           *)

LeaveText ==
    json_dumps(List(<<Str("1"), Str("2"), Str("test-topic"), Str("phx_leave"), EmptyDict>>))
JoinText ==
    json_dumps(List(<<None, None, Str("nonexistent-topic"), Str("phx_join"), EmptyDict>>))
LeaveSpecTexts == {LeaveText, JoinText}

LeaveNext ==
    \/ start
    \/ stop
    \/ stop_return
    \/ \E c \in Conns : accept(c)
    \/ \E c \in Conns : disconnect(c)
    \/ \E c \in Conns : handler_exit(c)
    \/ \E c \in Conns, message \in LeaveSpecTexts :
          Room(NeedOf(message), MaxSent + 1) /\ receive(c, message)
    \/ \E c \in Conns : leave_close(c)
    \/ Room(1, MaxSent + 1)
          /\ simulate_server_event(Str("test-topic"), Str("new_message"),
                                   Dict(<< <<"text", Str("hello")>> >>), Omitted)

LeaveSpec ==
    /\ Init
    /\ [][LeaveNext]_vars
    /\ WF_vars(stop_return)
    /\ \A c \in Conns : WF_vars(handler_exit(c)) /\ WF_vars(leave_close(c))

---------------------------------------------------------------------------
(* FakeAgentTools, agent_tools.py: an object apart from the server, with   *)
(* its own specification.  Every method runs to its end without            *)
(* suspending, so a call is one step.                                      *)

MaxCalls == 4

(* Python's truth value of the values used here *)
Truthy(v) == v \notin {None, Omitted, Str(""), List(<<>>), Dict(<<>>)}

(* `a or b` *)
Or(a, b) == IF Truthy(a) THEN a ELSE b

(* a keyword argument left out takes its default *)
Default(arg, default) == IF arg = Omitted THEN default ELSE arg

(* f"{prefix}{n}" *)
FString(prefix, n) == Str(prefix \o ToString(n))

Contents == {Str("hello")}
Mentions == {Omitted, List(<<>>), List(<<Str("@alice")>>)}
MessageTypes == {Str("thought")}
Metadatas == {Omitted, Dict(<<>>), Dict(<< <<"step", PyInt(1)>> >>)}
Names == {"Alice"}
Roles == {Omitted, Str("admin")}
ToolNames == {Str("search")}
Arguments == {Dict(<< <<"q", Str("x")>> >>)}
Pages == {Omitted, PyInt(2)}
Uuids == {"u1", "u2"}
Formats == {Str("openai")}
TaskIds == {Omitted, Str("task-1")}

TotalCalls ==
    calls["send_message"] + calls["send_event"] + calls["add_participant"]
    + calls["remove_participant"] + calls["get_participants"] + calls["lookup_peers"]
    + calls["create_chatroom"] + calls["get_tool_schemas"]
    + calls["get_anthropic_tool_schemas"] + calls["get_openai_tool_schemas"]
    + calls["execute_tool_call"]

(* the method returns `returned`; nothing of the server is touched *)
Returns(method, returned) ==
    /\ calls' = [calls EXCEPT ![method] = @ + 1]
    /\ last' = Step(method, NoConn, returned, "none", 0, NoConn)
    /\ UNCHANGED <<server, client_websocket, conn, pc, local, sent, test, pager, fixture, valid_topics>>

send_message_id_from_events(content, mentions) ==
    LET msg == Dict(<< <<"id", FString("msg-", Len(tools.events_sent))>>,
                       <<"content", content>>,
                       <<"mentions", Or(Default(mentions, None), List(<<>>))>> >>)
    IN  /\ tools' = [tools EXCEPT !.messages_sent = Append(@, msg)]
        /\ Returns("send_message", msg)

(* send_message, lines 41-51 *)
send_message(content, mentions) ==
    LET msg == Dict(<< <<"id", FString("msg-", Len(tools.messages_sent))>>,
                       <<"content", content>>,
                       <<"mentions", Or(Default(mentions, None), List(<<>>))>> >>)
    IN  /\ tools' = [tools EXCEPT !.messages_sent = Append(@, msg)]
        /\ Returns("send_message", msg)

(* send_event, lines 53-67 *)
send_event(content, message_type, metadata) ==
    LET event == Dict(<< <<"id", FString("evt-", Len(tools.events_sent))>>,
                         <<"content", content>>,
                         <<"message_type", message_type>>,
                         <<"metadata", Or(Default(metadata, None), Dict(<<>>))>> >>)
    IN  /\ tools' = [tools EXCEPT !.events_sent = Append(@, event)]
        /\ Returns("send_event", event)

(* add_participant, lines 69-75 *)
add_participant(name, role) ==
    LET participant == Dict(<< <<"id", Str("p-" \o name)>>,
                               <<"name", Str(name)>>,
                               <<"role", Default(role, Str("member"))>> >>)
    IN  /\ tools' = [tools EXCEPT !.participants_added = Append(@, participant)]
        /\ Returns("add_participant", participant)

remove_participant_into_added(name) ==
    LET participant == Dict(<< <<"id", Str("p-" \o name)>>, <<"name", Str(name)>> >>)
    IN  /\ tools' = [tools EXCEPT !.participants_added = Append(@, participant)]
        /\ Returns("remove_participant", participant)

(* remove_participant, lines 77-81 *)
remove_participant(name) ==
    LET participant == Dict(<< <<"id", Str("p-" \o name)>>, <<"name", Str(name)>> >>)
    IN  /\ tools' = [tools EXCEPT !.participants_removed = Append(@, participant)]
        /\ Returns("remove_participant", participant)

(* get_participants, lines 83-85 *)
get_participants ==
    /\ Returns("get_participants", List(<<>>))
    /\ UNCHANGED tools

(* lookup_peers, lines 87-94 *)
lookup_peers(page, page_size) ==
    /\ Returns("lookup_peers",
               Dict(<< <<"peers", List(<<>>)>>,
                       <<"metadata", Dict(<< <<"page", Default(page, PyInt(1))>>,
                                             <<"page_size", Default(page_size, PyInt(50))>>,
                                             <<"total", PyInt(0)>> >>)>> >>))
    /\ UNCHANGED tools

(* create_chatroom, lines 96-98: uuid4() is any fresh identifier *)
create_chatroom(task_id) ==
    /\ \E u \in Uuids : Returns("create_chatroom", Str("room-" \o u))
    /\ UNCHANGED tools

(* get_tool_schemas, lines 100-102 *)
get_tool_schemas(format) ==
    /\ Returns("get_tool_schemas", List(<<>>))
    /\ UNCHANGED tools

(* get_anthropic_tool_schemas, lines 104-106 *)
get_anthropic_tool_schemas ==
    /\ Returns("get_anthropic_tool_schemas", List(<<>>))
    /\ UNCHANGED tools

(* get_openai_tool_schemas, lines 108-110 *)
get_openai_tool_schemas ==
    /\ Returns("get_openai_tool_schemas", List(<<>>))
    /\ UNCHANGED tools

(* execute_tool_call, lines 112-118 *)
execute_tool_call(tool_name, arguments) ==
    LET call == Dict(<< <<"tool_name", tool_name>>, <<"arguments", arguments>> >>)
    IN  /\ tools' = [tools EXCEPT !.tool_calls = Append(@, call)]
        /\ Returns("execute_tool_call", Dict(<< <<"status", Str("ok")>> >>))

(* calls are left to make, below the cap on their number *)
Budget == TotalCalls < MaxCalls

ToolsNext ==
    \/ \E content \in Contents, mentions \in Mentions :
          Budget /\ send_message(content, mentions)
    \/ \E content \in Contents, message_type \in MessageTypes, metadata \in Metadatas :
          Budget /\ send_event(content, message_type, metadata)
    \/ \E name \in Names, role \in Roles : Budget /\ add_participant(name, role)
    \/ \E name \in Names : Budget /\ remove_participant(name)
    \/ Budget /\ get_participants
    \/ \E page \in Pages, page_size \in Pages : Budget /\ lookup_peers(page, page_size)
    \/ \E task_id \in TaskIds : Budget /\ create_chatroom(task_id)
    \/ \E format \in Formats : Budget /\ get_tool_schemas(format)
    \/ Budget /\ get_anthropic_tool_schemas
    \/ Budget /\ get_openai_tool_schemas
    \/ \E tool_name \in ToolNames, arguments \in Arguments :
          Budget /\ execute_tool_call(tool_name, arguments)

ToolsSpec == Init /\ [][ToolsNext]_vars

---------------------------------------------------------------------------

(* The pagination helpers, pagination.py.  A helper runs a loop that calls *)
(* the list function once per iteration; the list function belongs to the  *)
(* caller, so what it answers to each request is an input of that          *)
(* iteration.  One step is the call of a helper or one iteration.          *)

MaxPages == 3

PyBool(b) == <<"bool", b>>

(* dict.get(key, default) *)
dict_get(d, key, default) ==
    LET at == {i \in DOMAIN d[2] : d[2][i][1] = key}
    IN  IF at = {} THEN default ELSE d[2][CHOOSE i \in at : TRUE][2]

ItemX1 == Dict(<< <<"id", Str("x")>>, <<"title", Str("first")>> >>)
ItemX2 == Dict(<< <<"id", Str("x")>>, <<"title", Str("second")>> >>)
ItemY == Dict(<< <<"id", Str("y")>>, <<"title", Str("other")>> >>)
ItemNoId == Dict(<< <<"title", Str("x")>> >>)

(* What a response can hold: no "data" key, or one of these lists; no      *)
(* "metadata" key, a metadata without "total_pages", or a total_pages.     *)
PageDatas == {Omitted, List(<<>>), List(<<ItemY>>), List(<<ItemNoId, ItemX1, ItemX2>>)}
NoMetadata == <<"no metadata">>
NoTotalPages == <<"no total_pages">>
Totals == {NoMetadata, NoTotalPages} \cup {PyInt(n) : n \in (0 - 1)..MaxPages}

(* the JSON text the list function returns *)
Response(data, total) ==
    json_dumps(Dict(
        (IF data = Omitted THEN <<>> ELSE << <<"data", data>> >>)
        \o (IF total = NoMetadata THEN <<>>
            ELSE IF total = NoTotalPages THEN << <<"metadata", Dict(<<>>)>> >>
            ELSE << <<"metadata", Dict(<< <<"total_pages", total>> >>)>> >>)))

Responses == {Response(data, total) : data \in PageDatas, total \in Totals}

(* page_size (default 50) and the extra keyword arguments of a call *)
CallArgs ==
    {<<Omitted, Dict(<<>>)>>, <<PyInt(10), Dict(<< <<"status", Str("active")>> >>)>>}

(* A predicate `lambda item: item.get(key) == value` *)
Lambda(key, value) == [key |-> key, value |-> value]
Apply(predicate, item) == dict_get(item, predicate.key, None) = predicate.value
Predicates == {Lambda("id", Str("x")), Lambda("title", Str("missing"))}
ItemIds == {Str("x"), Str("z")}

(* list_func(ctx, page=page, page_size=page_size, **kwargs), lines 55, 110 *)
Request == [page |-> PyInt(pager.page), page_size |-> pager.page_size, kwargs |-> pager.kwargs]

PagerStep(op) ==
    /\ last' = Step(op, NoConn, None, "none", 0, NoConn)
    /\ UNCHANGED <<server, client_websocket, conn, pc, local, sent, test, tools, calls, fixture, valid_topics>>

Enter(fn, predicate, page_size, kwargs) ==
    /\ pager.at \in {"idle", "done"}
    /\ pager' = [fn |-> fn, at |-> "loop", predicate |-> predicate,
                 page_size |-> Default(page_size, PyInt(50)), kwargs |-> kwargs,
                 page |-> 1, all_items |-> <<>>, requests |-> <<>>,
                 responses |-> <<>>, returned |-> None]
    /\ PagerStep(fn)

(* fetch_all_pages, lines 29-52 *)
fetch_all_pages(page_size, kwargs) == Enter("fetch_all_pages", None, page_size, kwargs)

(* find_item_in_pages, lines 72-107 *)
find_item_in_pages(predicate, page_size, kwargs) ==
    Enter("find_item_in_pages", predicate, page_size, kwargs)

(* item_exists_in_pages, lines 128-158 *)
item_exists_in_pages(item_id, page_size, kwargs) ==
    Enter("item_exists_in_pages", Lambda("id", item_id), page_size, kwargs)

total_pages_defaults_to_two(parsed) ==
    dict_get(dict_get(parsed, "metadata", Dict(<<>>)), "total_pages", PyInt(2))

(* lines 62-63, 118-119 *)
total_pages(parsed) ==
    dict_get(dict_get(parsed, "metadata", Dict(<<>>)), "total_pages", PyInt(1))

fetch_page_stops_one_late(result) ==
    /\ pager.fn = "fetch_all_pages"
    /\ pager.at = "loop"
    /\ LET parsed == json_loads(result)
           items == dict_get(parsed, "data", List(<<>>))
           all_items == pager.all_items \o items[2]
           more == ~(pager.page > total_pages(parsed)[2])
       IN  pager' = [pager EXCEPT
                        !.requests = Append(@, Request),
                        !.responses = Append(@, result),
                        !.all_items = all_items,
                        !.page = IF more THEN @ + 1 ELSE @,
                        !.at = IF more THEN "loop" ELSE "done",
                        !.returned = IF more THEN None ELSE List(all_items)]
    /\ PagerStep("fetch_page")

(* fetch_all_pages, lines 54-69: one iteration of the loop *)
fetch_page(result) ==
    /\ pager.fn = "fetch_all_pages"
    /\ pager.at = "loop"
    /\ LET parsed == json_loads(result)
           items == dict_get(parsed, "data", List(<<>>))
           all_items == pager.all_items \o items[2]
           more == ~(pager.page >= total_pages(parsed)[2])
       IN  pager' = [pager EXCEPT
                        !.requests = Append(@, Request),
                        !.responses = Append(@, result),
                        !.all_items = all_items,
                        !.page = IF more THEN @ + 1 ELSE @,
                        !.at = IF more THEN "loop" ELSE "done",
                        !.returned = IF more THEN None ELSE List(all_items)]
    /\ PagerStep("fetch_page")

(* `for item in items: if predicate(item): return item`, lines 114-116 *)
Matching(predicate, items) == {i \in DOMAIN items[2] : Apply(predicate, items[2][i])}
FirstOf(indexes) == CHOOSE i \in indexes : \A j \in indexes : i <= j

Outcome_is_none(found) ==
    IF pager.fn = "item_exists_in_pages" THEN PyBool(found = None) ELSE found

(* what the caller of the search gets: the item or None from                *)
(* find_item_in_pages, `... is not None` from item_exists_in_pages          *)
Outcome(found) ==
    IF pager.fn = "item_exists_in_pages" THEN PyBool(found # None) ELSE found

find_page_fetches_on(result) ==
    /\ pager.fn \in {"find_item_in_pages", "item_exists_in_pages"}
    /\ pager.at = "loop"
    /\ LET parsed == json_loads(result)
           items == dict_get(parsed, "data", List(<<>>))
           matching == Matching(pager.predicate, items)
           more == ~(pager.page >= total_pages(parsed)[2])
       IN  pager' = [pager EXCEPT
                        !.requests = Append(@, Request),
                        !.responses = Append(@, result),
                        !.page = IF more THEN @ + 1 ELSE @,
                        !.at = IF more THEN "loop" ELSE "done",
                        !.returned =
                            IF more THEN None
                            ELSE IF matching # {} THEN Outcome(items[2][FirstOf(matching)])
                            ELSE Outcome(None)]
    /\ PagerStep("find_page")

(* find_item_in_pages, lines 109-125: one iteration of the loop *)
find_page(result) ==
    /\ pager.fn \in {"find_item_in_pages", "item_exists_in_pages"}
    /\ pager.at = "loop"
    /\ LET parsed == json_loads(result)
           items == dict_get(parsed, "data", List(<<>>))
           matching == Matching(pager.predicate, items)
           more == ~(pager.page >= total_pages(parsed)[2])
       IN  pager' = [pager EXCEPT
                        !.requests = Append(@, Request),
                        !.responses = Append(@, result),
                        !.page = IF matching = {} /\ more THEN @ + 1 ELSE @,
                        !.at = IF matching = {} /\ more THEN "loop" ELSE "done",
                        !.returned =
                            IF matching # {} THEN Outcome(items[2][FirstOf(matching)])
                            ELSE IF more THEN None
                            ELSE Outcome(None)]
    /\ PagerStep("find_page")

PagesNext ==
    \/ \E args \in CallArgs : fetch_all_pages(args[1], args[2])
    \/ \E predicate \in Predicates, args \in CallArgs :
          find_item_in_pages(predicate, args[1], args[2])
    \/ \E item_id \in ItemIds, args \in CallArgs :
          item_exists_in_pages(item_id, args[1], args[2])
    \/ \E result \in Responses : fetch_page(result)
    \/ \E result \in Responses : find_page(result)

(* A helper that was called runs on: the list function answers and the    *)
(* next iteration is taken.                                                *)
PagesSpec ==
    /\ Init
    /\ [][PagesNext]_vars
    /\ WF_vars(\E result \in Responses : fetch_page(result))
    /\ WF_vars(\E result \in Responses : find_page(result))

---------------------------------------------------------------------------

(* The api_client fixture, fixtures/api_clients.py, and the settings it    *)
(* loads, settings.py.  The environment of the test session (the variables *)
(* set, whether thenvoi_rest can be imported) is set up once; the fixture  *)
(* then runs once in the session.                                          *)

Unset == <<"unset">>

(* The settings of a session: a variable is unset or set to a string. *)
Environments ==
    [THENVOI_API_KEY : {Unset, Str(""), Str("key-1")},
     TEST_AGENT_ID : {Unset, Str("agent-1")},
     THENVOI_API_KEY_2 : {Unset, Str("key-2")},
     THENVOI_API_KEY_USER : {Unset, Str("user-key")},
     THENVOI_BASE_URL : {Unset, Str("https://api.thenvoi.com")}]

(* ThenvoiTestSettings, settings.py lines 85-97: a field takes the value   *)
(* of its variable, or its default                                         *)
Setting(env, name, default) == IF env[name] = Unset THEN default ELSE env[name]

ThenvoiTestSettings(env) ==
    [thenvoi_api_key |-> Setting(env, "THENVOI_API_KEY", Str("")),
     test_agent_id |-> Setting(env, "TEST_AGENT_ID", Str("")),
     thenvoi_api_key_2 |-> Setting(env, "THENVOI_API_KEY_2", Str("")),
     thenvoi_api_key_user |-> Setting(env, "THENVOI_API_KEY_USER", Str("")),
     thenvoi_base_url |-> Setting(env, "THENVOI_BASE_URL", Str("http://localhost:4000"))]

(* has_api_key, settings.py lines 99-102: bool(self.thenvoi_api_key) *)
has_api_key(settings) == settings.thenvoi_api_key # Str("")

(* api_clients.py lines 217-220: the two parts of the ImportError's message *)
ImportErrorMessage ==
    <<"thenvoi-client-rest is required for api_client fixture. ",
      "Install with: pip install thenvoi-testing-python[rest]">>

(* RestClient(api_key=..., base_url=...), lines 222-225 *)
RestClient(api_key, base_url) == <<"RestClient", api_key, base_url>>

FixtureStep(op) ==
    /\ last' = Step(op, NoConn, None, "none", 0, NoConn)
    /\ UNCHANGED <<server, client_websocket, conn, pc, local, sent, test, tools, calls, pager, valid_topics>>

(* the session's environment is set up *)
configure(env, installed) ==
    /\ fixture.at = "unset"
    /\ fixture' = [fixture EXCEPT !.at = "ready", !.env = env, !.installed = installed]
    /\ FixtureStep("configure")

api_client_falls_back_to_none ==
    /\ fixture.at = "ready"
    /\ LET settings == ThenvoiTestSettings(fixture.env) IN
       fixture' =
           IF ~has_api_key(settings)
           THEN [fixture EXCEPT !.at = "done", !.returned = None]
           ELSE IF ~fixture.installed
           THEN [fixture EXCEPT !.at = "done", !.imported = TRUE, !.returned = None]
           ELSE [fixture EXCEPT !.at = "done", !.imported = TRUE,
                                !.returned = RestClient(settings.thenvoi_api_key,
                                                        settings.thenvoi_base_url)]
    /\ FixtureStep("api_client")

(* api_client, api_clients.py lines 179-225 *)
api_client ==
    /\ fixture.at = "ready"
    /\ LET settings == ThenvoiTestSettings(fixture.env) IN
       fixture' =
           IF ~has_api_key(settings)
           THEN [fixture EXCEPT !.at = "done", !.returned = None]
           ELSE IF ~fixture.installed
           THEN [fixture EXCEPT !.at = "done", !.imported = TRUE,
                                !.raised = "ImportError",
                                !.message = ImportErrorMessage]
           ELSE [fixture EXCEPT !.at = "done", !.imported = TRUE,
                                !.returned = RestClient(settings.thenvoi_api_key,
                                                        settings.thenvoi_base_url)]
    /\ FixtureStep("api_client")

FixtureNext ==
    \/ \E env \in Environments, installed \in BOOLEAN : configure(env, installed)
    \/ api_client

FixtureSpec == Init /\ [][FixtureNext]_vars

---------------------------------------------------------------------------

(* Vocabulary of the properties, stated apart from the operators above. *)

AllowList == {Str("test-topic"), Str("test-topic-b")}

FiveList(d) == d[1] = "list" /\ Len(d[2]) = 5
JoinFrame(d) == FiveList(d) /\ d[2][4] = Str("phx_join")
LeaveFrame(d) == FiveList(d) /\ d[2][4] = Str("phx_leave")

OkJson == JObject(<< <<"status", JString("ok")>>, <<"response", JObject(<<>>)>> >>)
ErrorJson ==
    JObject(<< <<"status", JString("error")>>,
               <<"response", JObject(<< <<"reason", JString("unmatched topic")>> >>)>> >>)

(* The frames the handler of connection c wrote after the first k frames. *)
FramesBy(c, k) == SelectSeq(SubSeq(sent, k + 1, Len(sent)), LAMBDA e : e.by = c)

LastSent == sent[Len(sent)]

StateVars == <<server, client_websocket, conn, pc, local, sent, test>>

(* handle_message has just run on a phx_join / phx_leave frame *)
JoinHandled == last.op = "handle_message" /\ JoinFrame(last.data)
LeaveHandled == last.op = "handle_message" /\ LeaveFrame(last.data)

---------------------------------------------------------------------------
(* C1: while the stored connection is open, handling a 5-element phx_join  *)
(* frame writes exactly one frame, a phx_reply on the stored connection,   *)
(* whose payload is {status: ok, response: {}} if the topic is in the      *)
(* allow-list and {status: error, response: {reason: "unmatched topic"}}   *)
(* if it is not.                                                           *)
C1_JoinReplyFollowsAllowList ==
    (JoinHandled /\ last.attached) =>
        /\ Len(sent) = last.mark + 1
        /\ LastSent.to = last.ws
        /\ LastSent.by = last.by
        /\ LastSent.text[1] = "array"
        /\ Len(LastSent.text[2]) = 5
        /\ LastSent.text[2][4] = JString("phx_reply")
        /\ LastSent.text[2][5] =
              (IF last.data[2][3] \in AllowList THEN OkJson ELSE ErrorJson)

C1_Witness ==
    /\ JoinHandled
    /\ last.attached
    /\ last.data[2][3] = Str("nonexistent-topic")
    /\ Len(sent) = last.mark + 1
    /\ LastSent.text[2][5] = ErrorJson

(* C2 as stated: every phx_join handed to handle_message is answered by    *)
(* exactly one phx_reply, in every execution.                              *)
C2_EveryJoinGetsOneReply ==
    JoinHandled =>
        /\ Len(FramesBy(last.by, last.mark)) = 1
        /\ LastSent.text[2][4] = JString("phx_reply")

(* C2 amended: a phx_join handed to handle_message is answered by at most  *)
(* one phx_reply: exactly one when the stored connection is open at that   *)
(* moment, and none when it is closed, in which case the send raises and   *)
(* the receive loop of the connection the frame arrived on ends.           *)
C2_JoinGetsOneReplyIfOpen ==
    JoinHandled =>
        IF last.attached
        THEN /\ Len(FramesBy(last.by, last.mark)) = 1
             /\ Len(sent) = last.mark + 1
             /\ LastSent.text[2][4] = JString("phx_reply")
             /\ last.raised = "none"
             /\ pc[last.by] = "recv"
        ELSE /\ Len(sent) = last.mark
             /\ last.raised = "ConnectionClosed"
             /\ pc[last.by] = "done"

C2_Witness ==
    /\ JoinHandled
    /\ ~last.attached
    /\ conn[1] = "closed"
    /\ last.by = 1
    /\ last.ws = 2
    /\ pc[1] = "done"

(* C3 as stated: once the handling of a phx_leave frame has ended, the     *)
(* handler has written exactly two frames, next to each other and on one   *)
(* connection: the ok phx_reply and then the phx_close.                    *)
LeaveEnded ==
    \/ last.op = "leave_close"
    \/ LeaveHandled /\ last.raised # "none"

C3_LeaveAlwaysRepliesThenCloses ==
    LeaveEnded =>
        /\ Len(sent) = last.mark + 2
        /\ sent[last.mark + 1].by = last.by
        /\ sent[last.mark + 2].by = last.by
        /\ sent[last.mark + 1].to = sent[last.mark + 2].to
        /\ sent[last.mark + 1].text[2][4] = JString("phx_reply")
        /\ sent[last.mark + 1].text[2][5] = OkJson
        /\ sent[last.mark + 2].text[2][4] = JString("phx_close")
        /\ sent[last.mark + 2].text[2][5] = JObject(<<>>)

(* C3 amended: for any topic, handling a phx_leave frame while the stored  *)
(* connection is open writes the ok phx_reply on it and leaves the handler *)
(* owing the close; if the stored connection is still that same open       *)
(* connection when the handler resumes, the handler has then written       *)
(* exactly two frames, both on it: the phx_reply {status: ok, response:    *)
(* {}} and after it the phx_close {}.                                      *)
C3_LeaveRepliesThenClosesIfOpen ==
    /\ (LeaveHandled /\ last.attached) =>
          /\ Len(sent) = last.mark + 1
          /\ LastSent.to = last.ws
          /\ LastSent.by = last.by
          /\ LastSent.text[2][4] = JString("phx_reply")
          /\ LastSent.text[2][5] = OkJson
          /\ pc[last.by] = "leave_close"
          /\ local[last.by].data = last.data
    /\ (last.op = "leave_close" /\ last.attached /\ last.ws = client_websocket) =>
          LET out == FramesBy(last.by, last.mark) IN
          /\ Len(out) = 2
          /\ out[1].to = last.ws
          /\ out[2].to = last.ws
          /\ sent[last.mark + 1] = out[1]
          /\ LastSent = out[2]
          /\ out[1].text[2][4] = JString("phx_reply")
          /\ out[1].text[2][5] = OkJson
          /\ out[2].text[2][4] = JString("phx_close")
          /\ out[2].text[2][5] = JObject(<<>>)
          /\ pc[last.by] = "recv"

C3_Witness ==
    /\ last.op = "leave_close"
    /\ last.attached
    /\ last.ws = client_websocket
    /\ last.data[2][3] = Str("nonexistent-topic")
    /\ Len(sent) = last.mark + 2

(* C4: the phx_close written after a phx_leave carries the request's       *)
(* join_ref in its first and in its second slot and the request's topic in *)
(* the third; the request's msg_ref is in neither ref slot unless it       *)
(* equals the join_ref.                                                    *)
C4_CloseCarriesJoinRefTwice ==
    (last.op = "leave_close" /\ last.raised = "none") =>
        LET close == json_loads(LastSent.text)
            join_ref == last.data[2][1]
            msg_ref == last.data[2][2]
            topic == last.data[2][3]
        IN  /\ LastSent.by = last.by
            /\ close[1] = "list"
            /\ Len(close[2]) = 5
            /\ close[2][4] = Str("phx_close")
            /\ close[2][1] = join_ref
            /\ close[2][2] = join_ref
            /\ close[2][3] = topic
            /\ (msg_ref # join_ref => close[2][1] # msg_ref /\ close[2][2] # msg_ref)

C4_Witness ==
    /\ last.op = "leave_close"
    /\ last.raised = "none"
    /\ last.data[2][1] = Str("1")
    /\ last.data[2][2] = Str("2")
    /\ json_loads(LastSent.text)[2][2] = Str("1")

(* C5: every phx_reply written in answer to a phx_join or a phx_leave has  *)
(* in its first three slots the join_ref, msg_ref and topic of the frame   *)
(* it answers, null refs included, whether the reply is ok or error.       *)
C5_ReplyEchoesRefsAndTopic ==
    (last.op = "handle_message" /\ Len(sent) > last.mark) =>
        LET reply == json_loads(LastSent.text) IN
        /\ JoinFrame(last.data) \/ LeaveFrame(last.data)
        /\ reply[2][4] = Str("phx_reply")
        /\ reply[2][1] = last.data[2][1]
        /\ reply[2][2] = last.data[2][2]
        /\ reply[2][3] = last.data[2][3]

C5_Witness ==
    /\ JoinHandled
    /\ Len(sent) > last.mark
    /\ last.data[2][1] = Str("1")
    /\ last.data[2][2] = Str("2")
    /\ LastSent.text[2][5] = ErrorJson
    /\ LastSent.text[2][1] = JString("1")
    /\ LastSent.text[2][2] = JString("2")

(* C6: decoded data handed to handle_message that is no 5-element list, or *)
(* is one whose event is neither phx_join nor phx_leave, makes it return   *)
(* without writing a frame, without raising, and with the server, the      *)
(* connections and the receive loops as they were.                         *)
Ignorable(d) == ~(JoinFrame(d) \/ LeaveFrame(d))

C6_OtherFramesChangeNothing ==
    [][(last'.op = "handle_message" /\ Ignorable(last'.data)) =>
          (UNCHANGED StateVars /\ last'.raised = "none")]_vars

C6_Witness ==
    /\ last.op = "handle_message"
    /\ last.attached
    /\ last.data[1] = "list"
    /\ Len(last.data[2]) = 6
    /\ last.raised = "none"
    /\ pc[last.by] = "recv"

(* C7: while no client has ever connected, started or not, a call of       *)
(* simulate_server_event writes nothing, changes nothing and returns       *)
(* without raising.                                                        *)
NeverConnected == \A c \in Conns : conn[c] = "unused"

C7_SimulateBeforeAnyClient ==
    [][(last'.op = "simulate_server_event" /\ NeverConnected) =>
          (UNCHANGED StateVars /\ last'.raised = "none")]_vars

C7_Witness ==
    /\ last.op = "simulate_server_event"
    /\ NeverConnected
    /\ server = "listening"
    /\ last.raised = "none"
    /\ sent = <<>>

(* C8: while the stored connection is open, simulate_server_event(topic,   *)
(* event, payload, join_ref) writes exactly one frame, [join_ref, null,    *)
(* topic, event, payload] with join_ref null when it is not given, on the  *)
(* stored connection, whatever the topic, and changes nothing else.        *)
ExpectedPush(args) ==
    JArray(<<IF args[2][4] = Omitted THEN JNull ELSE json_dumps(args[2][4]),
             JNull,
             json_dumps(args[2][1]),
             json_dumps(args[2][2]),
             json_dumps(args[2][3])>>)

C8_SimulateWritesOneFrame ==
    [][(last'.op = "simulate_server_event" /\ Attached) =>
          /\ sent' = Append(sent, [to |-> client_websocket, by |-> NoConn,
                                   text |-> ExpectedPush(last'.data)])
          /\ last'.raised = "none"
          /\ UNCHANGED <<server, client_websocket, conn, pc, local, test>>]_vars

C8_Witness ==
    /\ last.op = "simulate_server_event"
    /\ last.attached
    /\ last.data[2][1] = Str("nonexistent-topic")
    /\ last.data[2][4] = Omitted
    /\ Len(sent) = last.mark + 1
    /\ LastSent.text[2][1] = JNull
    /\ LastSent.text[2][2] = JNull

(* C9 as stated: whenever no open connection is stored, also after the     *)
(* peer has disconnected or the server was stopped, simulate_server_event  *)
(* writes no frame and raises nothing.                                     *)
C9_SimulateSilentWhenDetached ==
    (last.op = "simulate_server_event" /\ ~last.attached) =>
        /\ Len(sent) = last.mark
        /\ last.raised = "none"

(* C10: stop() on a server on which start() never succeeded returns at     *)
(* once without raising and leaves the server not started.                 *)
C10_StopBeforeStart ==
    [][(last'.op = "stop" /\ server = "None") =>
          /\ server' = "None"
          /\ test' = "idle"
          /\ last'.raised = "none"
          /\ UNCHANGED StateVars]_vars

C10_Witness ==
    /\ last.op = "stop"
    /\ server = "None"
    /\ test = "idle"
    /\ last.raised = "none"

---------------------------------------------------------------------------
(* C11 as stated: the lifecycle only moves not-started -> listening ->     *)
(* stopped; no step takes the server from stopped back to listening or     *)
(* from listening back to not-started.                                     *)
C11_LifecycleNeverGoesBack ==
    [][/\ ~(server = "closed" /\ server' = "listening")
       /\ ~(server = "listening" /\ server' = "None")]_vars

(* C11 amended: once start() has succeeded the server is never not-started *)
(* again, stop() and everything but start() never make it listen, and the  *)
(* one step that leaves the stopped state is a start() whose bind          *)
(* succeeds, which makes the server listen again.                          *)
C11_OnlyStartListensAgain ==
    [][/\ (server # "None" => server' # "None")
       /\ (server = "None" => server' \in {"None", "listening"})
       /\ (server = "listening" => server' \in {"listening", "closed"})
       /\ ((server # "listening" /\ server' = "listening") =>
              (last'.op = "start" /\ last'.raised = "none"))
       /\ ((last'.op = "start" /\ last'.raised = "none") => server' = "listening")]_vars

C11_Witness ==
    /\ last.op = "start"
    /\ last.raised = "none"
    /\ last.was = "closed"
    /\ server = "listening"

(* C12 as stated: when no pushed frame is written while a phx_leave is     *)
(* being handled, its phx_reply and its phx_close are next to each other   *)
(* in what the server writes.  (The reply and the close here go to the     *)
(* same connection, so a push made meanwhile would have written a frame.)  *)
LeaveWritten == last.op = "leave_close" /\ last.raised = "none"

Between == (last.mark + 2) .. (Len(sent) - 1)

C12_NothingBetweenReplyAndClose ==
    (/\ LeaveWritten
     /\ sent[last.mark + 1].to = LastSent.to
     /\ \A i \in Between : sent[i].by # NoConn) =>
        /\ Len(sent) = last.mark + 2
        /\ sent[last.mark + 1].text[2][4] = JString("phx_reply")
        /\ LastSent.text[2][4] = JString("phx_close")

(* C12 amended: the two frames a handler writes for one phx_leave are      *)
(* written in order, the phx_reply before the phx_close, and the handler   *)
(* writes nothing between them; every frame the server writes between them *)
(* is a pushed frame or a frame of another connection's handler, so that   *)
(* they are next to each other provided that neither simulate_server_event *)
(* is called nor a frame of another connection is handled meanwhile.       *)
C12_ReplyThenCloseInOrder ==
    LeaveWritten =>
        LET out == FramesBy(last.by, last.mark) IN
        /\ Len(out) = 2
        /\ sent[last.mark + 1] = out[1]
        /\ LastSent = out[2]
        /\ out[1].text[2][4] = JString("phx_reply")
        /\ out[2].text[2][4] = JString("phx_close")
        /\ \A i \in Between : sent[i].by # last.by
        /\ (\A i \in Between : sent[i].by \notin (Conns \cup {NoConn}) \ {last.by}) =>
              Len(sent) = last.mark + 2

C12_Witness ==
    /\ LeaveWritten
    /\ Len(sent) = last.mark + 3
    /\ sent[last.mark + 2].by \in Conns \ {last.by}
    /\ sent[last.mark + 1].to = LastSent.to

(* C13: an exception raised in the receive loop of a connection, by the    *)
(* decoding of a frame or by a send of handle_message on a closed stored   *)
(* connection, ends that loop and nothing else: the loop is done from then *)
(* on and handles no further frame, the frames written and the test's own  *)
(* calls are as they were; start() raises nothing but the OSError of its   *)
(* own bind, and stop() raises nothing.                                    *)
LoopOps == {"json_loads", "handle_message", "leave_close"}
LoopErrors == {"JSONDecodeError", "ConnectionClosed"}

C13_LoopErrorsEndTheLoopSilently ==
    [][/\ (last'.op \in LoopOps /\ last'.raised # "none") =>
              /\ last'.raised \in LoopErrors
              /\ pc'[last'.by] = "done"
              /\ \A c \in Conns \ {last'.by} : pc'[c] = pc[c]
              /\ UNCHANGED <<server, client_websocket, sent, test>>
       /\ \A c \in Conns : pc[c] = "done" =>
              /\ pc'[c] = "done"
              /\ ~(last'.by = c /\ last'.op \in LoopOps)
       /\ last'.op = "start" => last'.raised \in {"none", "OSError"}
       /\ last'.op \in {"stop", "stop_return"} => last'.raised = "none"]_vars

C13_Witness ==
    /\ last.op = "json_loads"
    /\ last.raised = "JSONDecodeError"
    /\ pc[last.by] = "done"
    /\ test = "idle"

(* C14 as stated: there are never two connections whose receive loops are  *)
(* being served at the same time.                                          *)
Served(c) == conn[c] = "open" /\ pc[c] \in {"recv", "leave_close"}

C14_AtMostOneServedConnection ==
    Cardinality({c \in Conns : Served(c)}) <= 1

(* C14 amended: the server holds at most one connection reference: none    *)
(* before the first peer is accepted and, from then on, that of the        *)
(* connection accepted last.  The listener itself accepts every peer, so   *)
(* the receive loops of several connections can be served at a time.       *)
Accepted == {c \in Conns : conn[c] # "unused"}

C14_OneStoredConnection ==
    /\ client_websocket \in Conns \cup {NoConn}
    /\ (Accepted = {}) = (client_websocket = NoConn)
    /\ client_websocket # NoConn =>
          /\ client_websocket \in Accepted
          /\ \A c \in Accepted : c <= client_websocket
    /\ last.op = "accept" => client_websocket = last.by

C14_Witness ==
    /\ Served(1)
    /\ Served(2)
    /\ client_websocket = 2
    /\ last.op = "handle_message"
    /\ last.by = 1

(* C15: accepting a connection overwrites the one stored reference with    *)
(* the new connection, whatever was stored, without raising and without    *)
(* touching the connection stored before; and every frame the server       *)
(* writes, a reply, a close or a pushed frame, for any topic, is written   *)
(* on the connection stored at that moment, also when the frame it answers *)
(* arrived on a connection accepted earlier.                               *)
C15_WritesGoToStoredConnection ==
    [][/\ last'.op = "accept" =>
              /\ client_websocket' = last'.by
              /\ last'.raised = "none"
              /\ \A c \in Conns \ {last'.by} : conn'[c] = conn[c] /\ pc'[c] = pc[c]
       /\ last'.op # "accept" => client_websocket' = client_websocket
       /\ sent' # sent =>
              /\ Len(sent') = Len(sent) + 1
              /\ SubSeq(sent', 1, Len(sent)) = sent
              /\ sent'[Len(sent')].to = client_websocket
              /\ sent'[Len(sent')].by = last'.by]_vars

C15_Witness ==
    /\ sent # <<>>
    /\ LastSent.by = 1
    /\ LastSent.to = 2
    /\ conn[1] = "open"
    /\ last.op = "handle_message"
    /\ last.data[2][3] = Str("test-topic-b")

(* C16 as stated: every phx_close a handler writes comes right after the   *)
(* ok phx_reply with the same join_ref and topic in what the server        *)
(* writes.                                                                 *)
HandlerCloses ==
    {i \in 1..Len(sent) : sent[i].by \in Conns /\ sent[i].text[2][4] = JString("phx_close")}

OkReplyFor(reply, close) ==
    /\ reply.text[2][4] = JString("phx_reply")
    /\ reply.text[2][5] = OkJson
    /\ reply.text[2][1] = close.text[2][1]
    /\ reply.text[2][3] = close.text[2][3]

C16_CloseRightAfterLeaveReply ==
    \A i \in HandlerCloses :
        /\ i > 1
        /\ OkReplyFor(sent[i - 1], sent[i])

(* C16 amended: a handler writes a phx_close only to end the handling of a *)
(* phx_leave; the handling of a phx_join, of a valid or an unmatched       *)
(* topic, writes at most its one phx_reply and leaves no close owed; and   *)
(* every phx_close a handler writes comes after the ok phx_reply that this *)
(* handler wrote for the same leave, with the same join_ref and topic,     *)
(* with no frame of this handler between them; pushed frames and frames    *)
(* of other connections' handlers can lie between them.                    *)
C16_CloseOnlyAfterLeaveReply ==
    /\ \A i \in HandlerCloses :
          \E j \in 1..(i - 1) :
              /\ sent[j].by = sent[i].by
              /\ OkReplyFor(sent[j], sent[i])
              /\ \A k \in (j + 1)..(i - 1) : sent[k].by # sent[i].by
    /\ \A c \in Conns : pc[c] = "leave_close" => LeaveFrame(local[c].data)
    /\ last.op = "leave_close" => LeaveFrame(last.data)
    /\ JoinHandled =>
          /\ pc[last.by] \in {"recv", "done"}
          /\ Len(sent) \in {last.mark, last.mark + 1}
          /\ Len(sent) = last.mark + 1 => LastSent.text[2][4] = JString("phx_reply")

C16_Witness ==
    /\ Len(sent) = 3
    /\ 3 \in HandlerCloses
    /\ sent[2].by = NoConn
    /\ sent[1].by = sent[3].by
    /\ OkReplyFor(sent[1], sent[3])

(* C17: a stop() called on a started server returns in the end, whether no *)
(* peer was ever accepted, a peer is connected with its receive loop idle  *)
(* or suspended in a send, or the peers have left; when it returns no      *)
(* receive loop is running, and while the server is stopped no connection  *)
(* is accepted.                                                            *)
C17_StopReturns ==
    /\ (test = "in_stop") ~> (test = "idle")
    /\ [][/\ server = "closed" => last'.op # "accept"
          /\ last'.op = "stop_return" =>
                /\ server' = "closed"
                /\ \A c \in Conns : pc'[c] \in {"idle", "done"} /\ conn'[c] # "open"]_vars

C17_Witness ==
    /\ last.op = "stop"
    /\ last.was = "listening"
    /\ test = "in_stop"
    /\ last.attached
    /\ pc[client_websocket] = "recv"
    /\ sent = <<>>

(* C18: a start() whose bind fails raises the OSError to its caller and    *)
(* changes nothing: a server that was not started is still not started,    *)
(* with no server object stored, and a stop() called next returns at once, *)
(* without raising and without changing anything.                          *)
C18_FailedStartLeavesNotStarted ==
    [][/\ (last'.op = "start" /\ last'.raised # "none") =>
              /\ last'.raised = "OSError"
              /\ last'.by = NoConn
              /\ UNCHANGED StateVars
       /\ (last'.op = "start" /\ last'.raised = "none") => server' = "listening"
       /\ (last.op = "start" /\ last.raised = "OSError" /\ last.was = "None"
             /\ last'.op = "stop") =>
              /\ server = "None"
              /\ last'.raised = "none"
              /\ UNCHANGED StateVars]_vars

C18_Witness ==
    /\ last.op = "start"
    /\ last.raised = "OSError"
    /\ last.was = "None"
    /\ server = "None"
    /\ test = "idle"

(* C19: every frame the server has written is a JSON array of 5 elements.  *)
(* One written by a handler is a phx_reply whose payload is an object of   *)
(* exactly a status, "ok" or "error", and a response object, or a          *)
(* phx_close whose payload is the empty object; one written by             *)
(* simulate_server_event has a null msg_ref, and its event and payload are *)
(* the ones the caller gave.                                               *)
ReplyPayload(p) ==
    /\ p[1] = "object"
    /\ Len(p[2]) = 2
    /\ p[2][1][1] = "status"
    /\ p[2][1][2] \in {JString("ok"), JString("error")}
    /\ p[2][2][1] = "response"
    /\ p[2][2][2][1] = "object"

FrameShape(e) ==
    /\ e.text[1] = "array"
    /\ Len(e.text[2]) = 5
    /\ IF e.by \in Conns
       THEN \/ e.text[2][4] = JString("phx_reply") /\ ReplyPayload(e.text[2][5])
            \/ e.text[2][4] = JString("phx_close") /\ e.text[2][5] = JObject(<<>>)
       ELSE /\ e.by = NoConn
            /\ e.text[2][2] = JNull

C19_EveryFrameHasTheEnvelope ==
    /\ \A i \in 1..Len(sent) : FrameShape(sent[i])
    /\ (last.op = "simulate_server_event" /\ Len(sent) > last.mark) =>
          /\ LastSent.by = NoConn
          /\ LastSent.text[2][4] = json_dumps(last.data[2][2])
          /\ LastSent.text[2][5] = json_dumps(last.data[2][3])

C19_Witness ==
    /\ Len(sent) = 2
    /\ sent[1].by \in Conns
    /\ sent[1].text[2][5] = ErrorJson
    /\ last.op = "simulate_server_event"
    /\ sent[2].by = NoConn
    /\ sent[2].text[2][4] = JString("new_message")

(* C20: on a FakeAgentTools instance, after any sequence of calls of its   *)
(* methods, the i-th entry (from 0) of messages_sent has id "msg-i" and    *)
(* the i-th entry of events_sent has id "evt-i"; a send_message or         *)
(* send_event call appends exactly one entry to its own list, leaves the   *)
(* other list alone and returns that entry, whose id number is the number  *)
(* of earlier calls of the same method.                                    *)
Get(d, key) == (CHOOSE pair \in {d[2][i] : i \in 1..Len(d[2])} : pair[1] = key)[2]

Numbered(list, prefix) ==
    \A i \in 1..Len(list) : Get(list[i], "id") = Str(prefix \o ToString(i - 1))

C20_IdsCountFromZeroPerList ==
    /\ [](/\ Numbered(tools.messages_sent, "msg-")
          /\ Numbered(tools.events_sent, "evt-")
          /\ Len(tools.messages_sent) = calls["send_message"]
          /\ Len(tools.events_sent) = calls["send_event"])
    /\ [][/\ last'.op = "send_message" =>
                /\ tools'.messages_sent = Append(tools.messages_sent, last'.data)
                /\ tools'.events_sent = tools.events_sent
                /\ Get(last'.data, "id") = Str("msg-" \o ToString(calls["send_message"]))
          /\ last'.op = "send_event" =>
                /\ tools'.events_sent = Append(tools.events_sent, last'.data)
                /\ tools'.messages_sent = tools.messages_sent
                /\ Get(last'.data, "id") = Str("evt-" \o ToString(calls["send_event"]))]_vars

C20_Witness ==
    /\ last.op = "send_message"
    /\ Len(tools.messages_sent) = 2
    /\ Len(tools.events_sent) = 1
    /\ Get(last.data, "id") = Str("msg-1")
    /\ Get(tools.events_sent[1], "id") = Str("evt-0")

(* C21: each tracking method of FakeAgentTools (send_message, send_event,  *)
(* add_participant, remove_participant, execute_tool_call) appends exactly *)
(* one record to its own list and leaves the other four lists as they      *)
(* were, so that the length of each list is the number of calls made of    *)
(* its method; the query methods (get_participants, lookup_peers,          *)
(* create_chatroom, the three tool schema getters) change no list.         *)
ListOf ==
    [send_message |-> "messages_sent", send_event |-> "events_sent",
     add_participant |-> "participants_added",
     remove_participant |-> "participants_removed",
     execute_tool_call |-> "tool_calls"]

Trackers == DOMAIN ListOf
Lists == {ListOf[m] : m \in Trackers}

C21_EachTrackerFillsItsOwnList ==
    /\ [](\A m \in Trackers : Len(tools[ListOf[m]]) = calls[m])
    /\ [][/\ last'.op \in Trackers =>
                /\ Len(tools'[ListOf[last'.op]]) = Len(tools[ListOf[last'.op]]) + 1
                /\ SubSeq(tools'[ListOf[last'.op]], 1, Len(tools[ListOf[last'.op]]))
                      = tools[ListOf[last'.op]]
                /\ \A l \in Lists \ {ListOf[last'.op]} : tools'[l] = tools[l]
          /\ last'.op \in Methods \ Trackers => tools' = tools]_vars

C21_Witness ==
    /\ last.op = "remove_participant"
    /\ Len(tools.participants_removed) = 1
    /\ Len(tools.participants_added) = 1
    /\ Len(tools.messages_sent) = 1
    /\ calls["lookup_peers"] = 1
    /\ Len(tools.events_sent) = 0
    /\ Len(tools.tool_calls) = 0

---------------------------------------------------------------------------
(* Vocabulary of the pagination properties, read off the JSON texts the    *)
(* list function returned.                                                 *)

Members(t, key) == {t[2][i][2] : i \in {j \in DOMAIN t[2] : t[2][j][1] = key}}

(* the items of a response, none when it has no "data" *)
DataOf(t) ==
    IF Members(t, "data") = {} THEN <<>>
    ELSE LET data == CHOOSE d \in Members(t, "data") : TRUE
         IN  [i \in DOMAIN data[2] |-> json_loads(data[2][i])]

(* the total_pages a response reports, 1 when it reports none *)
TotalOf(t) ==
    IF Members(t, "metadata") = {} THEN 1
    ELSE LET metadata == CHOOSE m \in Members(t, "metadata") : TRUE
         IN  IF Members(metadata, "total_pages") = {} THEN 1
             ELSE (CHOOSE n \in Members(metadata, "total_pages") : TRUE)[2]

RECURSIVE Concat(_)
Concat(texts) ==
    IF texts = <<>> THEN <<>>
    ELSE Concat(SubSeq(texts, 1, Len(texts) - 1)) \o DataOf(texts[Len(texts)])

Done(fn) == pager.fn = fn /\ pager.at = "done"

(* every response of the call reported total_pages = n *)
ConstantTotal(n) == \A i \in DOMAIN pager.responses : TotalOf(pager.responses[i]) = n

InOrder ==
    \A i \in DOMAIN pager.requests :
        /\ pager.requests[i].page = PyInt(i)
        /\ pager.requests[i].page_size = pager.page_size
        /\ pager.requests[i].kwargs = pager.kwargs

(* C22: when the list function reports the same total_pages = N >= 1 in    *)
(* every response, fetch_all_pages has called it exactly N times when it   *)
(* returns, for the pages 1, 2, ..., N in this order and each time with    *)
(* the page_size and the keyword arguments of the call, and it returns the *)
(* items of the responses' "data", concatenated in page order.             *)
C22_FetchAllPagesOneCallPerPage ==
    \A n \in 1..MaxPages :
        (Done("fetch_all_pages") /\ ConstantTotal(n)) =>
            /\ Len(pager.requests) = n
            /\ InOrder
            /\ pager.returned = List(Concat(pager.responses))

C22_Witness ==
    /\ Done("fetch_all_pages")
    /\ ConstantTotal(3)
    /\ Len(pager.requests) = 3
    /\ pager.page_size = PyInt(10)
    /\ Len(pager.returned[2]) = 4
    /\ pager.returned[2][1] = ItemY
    /\ pager.returned[2][4] = ItemX2

(* the item satisfies `item.get(key) == value` of the call's predicate *)
Satisfies(item) ==
    \E i \in DOMAIN item[2] : item[2][i] = <<pager.predicate.key, pager.predicate.value>>

MatchesIn(t) == {i \in DOMAIN DataOf(t) : Satisfies(DataOf(t)[i])}
PagesWithMatch == {p \in DOMAIN pager.responses : MatchesIn(pager.responses[p]) # {}}

(* C23: find_item_in_pages requests the pages 1, 2, ... in order and stops *)
(* at the first page that holds an item satisfying the predicate: when     *)
(* that is page k, exactly the pages 1..k have been requested, whatever    *)
(* total_pages the responses report, and the item returned is the first    *)
(* one of page k, in the order of its "data", that satisfies the           *)
(* predicate.                                                              *)
C23_FindStopsAtFirstMatch ==
    pager.fn = "find_item_in_pages" =>
        /\ InOrder
        /\ pager.at = "loop" => PagesWithMatch = {}
        /\ (pager.at = "done" /\ PagesWithMatch # {}) =>
              LET k == Len(pager.responses)
                  found == MatchesIn(pager.responses[k])
              IN  /\ PagesWithMatch = {k}
                  /\ Len(pager.requests) = k
                  /\ \E i \in found :
                        /\ \A j \in found : i <= j
                        /\ pager.returned = DataOf(pager.responses[k])[i]

C23_Witness ==
    /\ Done("find_item_in_pages")
    /\ Len(pager.requests) = 2
    /\ TotalOf(pager.responses[2]) = 3
    /\ pager.returned = ItemX1

(* the item has an "id" field equal to the item_id of the call *)
HasTheId(item) == \E i \in DOMAIN item[2] : item[2][i] = <<"id", pager.predicate.value>>

SomePageHasTheId ==
    \E p \in DOMAIN pager.responses :
        \E i \in DOMAIN DataOf(pager.responses[p]) : HasTheId(DataOf(pager.responses[p])[i])

AtLeastOne(n) == IF n >= 1 THEN n ELSE 1

(* C24: when the list function reports the same total_pages = N in every   *)
(* response, find_item_in_pages returns None exactly when no item of the   *)
(* pages it was given satisfies the predicate, and it has then requested   *)
(* every page 1..N (page 1 alone when N < 1); item_exists_in_pages returns *)
(* True exactly when an item of those pages has an "id" field equal to     *)
(* item_id, and False otherwise, after every page was requested.           *)
C24_NoneOnlyWhenNoPageMatches ==
    \A n \in (0 - 1)..MaxPages :
        /\ (Done("find_item_in_pages") /\ ConstantTotal(n)) =>
              /\ (pager.returned = None) = (PagesWithMatch = {})
              /\ pager.returned = None =>
                    Len(pager.requests) = AtLeastOne(n) /\ InOrder
        /\ (Done("item_exists_in_pages") /\ ConstantTotal(n)) =>
              /\ pager.returned = PyBool(SomePageHasTheId)
              /\ pager.returned = PyBool(FALSE) =>
                    Len(pager.requests) = AtLeastOne(n) /\ InOrder

C24_Witness ==
    /\ Done("item_exists_in_pages")
    /\ ConstantTotal(3)
    /\ pager.returned = PyBool(FALSE)
    /\ pager.predicate.value = Str("z")
    /\ Len(pager.requests) = 3
    /\ DataOf(pager.responses[2]) = <<ItemNoId, ItemX1, ItemX2>>

(* C30: a call of fetch_all_pages, find_item_in_pages or                   *)
(* item_exists_in_pages ends when the reported total_pages are bounded:    *)
(* the pages requested are 1, 2, 3, ... one per call of the list function; *)
(* the loop goes on only past a page p whose response reports              *)
(* total_pages > p and ends at the first page that does not (or, in a      *)
(* search, that holds a match); so no more calls are made than the largest *)
(* total_pages reported, or one call if that is less than 1, and exactly   *)
(* one call is made when the first response has no metadata, no            *)
(* total_pages, or a total_pages of 0 or less.                             *)
Searching == pager.fn \in {"find_item_in_pages", "item_exists_in_pages"}

LargestTotal ==
    CHOOSE n \in {TotalOf(pager.responses[i]) : i \in DOMAIN pager.responses} :
        \A i \in DOMAIN pager.responses : TotalOf(pager.responses[i]) <= n

C30_PagingLoopsEnd ==
    /\ (pager.at = "loop") ~> (pager.at = "done")
    /\ [](pager.fn # "none" =>
            LET k == Len(pager.requests) IN
            /\ Len(pager.responses) = k
            /\ \A i \in 1..k : pager.requests[i].page = PyInt(i)
            /\ \A i \in 1..(k - 1) : TotalOf(pager.responses[i]) > i
            /\ pager.at = "loop" =>
                  /\ pager.page = k + 1
                  /\ k >= 1 => TotalOf(pager.responses[k]) > k
            /\ pager.at = "done" =>
                  /\ k >= 1
                  /\ pager.page = k
                  /\ \/ TotalOf(pager.responses[k]) <= k
                     \/ Searching /\ MatchesIn(pager.responses[k]) # {}
            /\ k >= 1 =>
                  /\ k <= AtLeastOne(LargestTotal)
                  /\ TotalOf(pager.responses[1]) <= 1 => (k = 1 /\ pager.at = "done"))

C30_Witness ==
    /\ Done("fetch_all_pages")
    /\ Len(pager.requests) = 1
    /\ Members(pager.responses[1], "metadata") = {JObject(<<>>)}
    /\ DataOf(pager.responses[1]) = <<ItemY>>

(* C25: the api_client fixture returns None when no primary API key is     *)
(* configured (the variable unset or empty, whatever the other keys),      *)
(* without importing the real client; with a key configured and the real   *)
(* client not importable it raises an ImportError whose message names the  *)
(* extra to install and returns nothing; with both it returns a RestClient *)
(* made of the key and the base URL.                                       *)
KeyConfigured == fixture.env.THENVOI_API_KEY \notin {Unset, Str("")}

C25_ApiClientNoneOrLoud ==
    fixture.at = "done" =>
        IF ~KeyConfigured
        THEN /\ fixture.returned = None
             /\ fixture.raised = "none"
             /\ ~fixture.imported
        ELSE IF ~fixture.installed
        THEN /\ fixture.raised = "ImportError"
             /\ fixture.message[2] = "Install with: pip install thenvoi-testing-python[rest]"
             /\ fixture.returned = None
        ELSE /\ fixture.raised = "none"
             /\ fixture.returned =
                   <<"RestClient", fixture.env.THENVOI_API_KEY,
                     IF fixture.env.THENVOI_BASE_URL = Unset
                     THEN Str("http://localhost:4000")
                     ELSE fixture.env.THENVOI_BASE_URL>>

C25_Witness ==
    /\ fixture.at = "done"
    /\ fixture.env.THENVOI_API_KEY = Str("key-1")
    /\ ~fixture.installed
    /\ fixture.raised = "ImportError"
    /\ last.op = "api_client"

(* C26: once a connection has been accepted the stored reference is never  *)
(* empty again: the peer's disconnect, the end of a receive loop (by the   *)
(* close of its connection or by an exception), stop() and its return,     *)
(* start(), the handling of a frame and a pushed event all leave it as it  *)
(* was, pointing at the connection accepted last whether that is open or   *)
(* closed; the one step that changes it is the accept of a new connection. *)
C26_ReferenceNeverCleared ==
    [][/\ client_websocket # NoConn => client_websocket' # NoConn
       /\ client_websocket' # client_websocket =>
             /\ last'.op = "accept"
             /\ client_websocket' = last'.by
             /\ conn[last'.by] = "unused"
       /\ last'.op \in {"disconnect", "handler_exit", "stop", "stop_return", "start",
                       "json_loads", "handle_message", "leave_close",
                       "simulate_server_event"} =>
             client_websocket' = client_websocket]_vars

C26_Witness ==
    /\ last.op = "stop_return"
    /\ client_websocket = 2
    /\ conn[2] = "closed"
    /\ pc[2] = "done"
    /\ pc[1] = "done"
    /\ server = "closed"

(* C27: what a handler writes for an inbound frame is a function of that   *)
(* frame and of the allow-list alone: the reply to a phx_join, the reply   *)
(* to a phx_leave and the close after it are the same texts whatever was   *)
(* joined, left or pushed before (a topic joined again gets the same ok    *)
(* reply, a topic never joined gets the same reply and close when left),   *)
(* and the allow-list is the one set at construction in every state.       *)
ExpectedReply(d) ==
    JArray(<<json_dumps(d[2][1]), json_dumps(d[2][2]), json_dumps(d[2][3]),
             JString("phx_reply"),
             IF JoinFrame(d) /\ d[2][3] \notin AllowList THEN ErrorJson ELSE OkJson>>)

ExpectedClose(d) ==
    JArray(<<json_dumps(d[2][1]), json_dumps(d[2][1]), json_dumps(d[2][3]),
             JString("phx_close"), JObject(<<>>)>>)

C27_OutputDependsOnFrameOnly ==
    /\ [](/\ valid_topics = AllowList
          /\ (last.op = "handle_message" /\ Len(sent) > last.mark) =>
                /\ Len(sent) = last.mark + 1
                /\ LastSent.text = ExpectedReply(last.data)
          /\ (last.op = "leave_close" /\ last.raised = "none") =>
                /\ LastSent.text = ExpectedClose(last.data)
                /\ sent[last.mark + 1].text = ExpectedReply(last.data))
    /\ [][valid_topics' = valid_topics]_vars

C27_Witness ==
    /\ JoinHandled
    /\ last.data[2][3] = Str("test-topic")
    /\ Len(sent) = 2
    /\ sent[1].by = sent[2].by
    /\ sent[1].text = sent[2].text
    /\ sent[2].text[2][5] = OkJson

(* C28: a simulate_server_event called while a handler is suspended        *)
(* between the phx_reply and the phx_close of a leave, the stored          *)
(* connection being open, writes its frame exactly once and leaves the     *)
(* handler as it was, still owing the close; no frame written is ever      *)
(* removed or written again; and when the handler resumes, its phx_reply   *)
(* and its phx_close are in this order with the pushed frame between them, *)
(* so that only the place of the pushed frame differs from a run in which  *)
(* the event is pushed before or after the leave.                          *)
Suspended == {c \in Conns : pc[c] = "leave_close"}

C28_PushDuringLeaveWrittenOnce ==
    /\ [][/\ Len(sent') >= Len(sent)
          /\ SubSeq(sent', 1, Len(sent)) = sent
          /\ (last'.op = "simulate_server_event" /\ Suspended # {} /\ Attached) =>
                /\ sent' = Append(sent, [to |-> client_websocket, by |-> NoConn,
                                         text |-> ExpectedPush(last'.data)])
                /\ pc' = pc
                /\ local' = local
                /\ last'.raised = "none"
          /\ (Len(sent') > Len(sent) /\ sent'[Len(sent')].by = NoConn) =>
                /\ last'.op = "simulate_server_event"
                /\ Len(sent') = Len(sent) + 1]_vars
    /\ [](LeaveWritten =>
            /\ sent[last.mark + 1].text = ExpectedReply(last.data)
            /\ sent[last.mark + 1].by = last.by
            /\ LastSent.text = ExpectedClose(last.data)
            /\ LastSent.by = last.by
            /\ \A i \in Between : sent[i].by # last.by)

C28_Witness ==
    /\ LeaveWritten
    /\ Len(sent) = 3
    /\ last.mark = 0
    /\ sent[2].by = NoConn
    /\ sent[2].text[2][4] = JString("new_message")
    /\ sent[1].to = sent[2].to
    /\ sent[2].to = sent[3].to
    /\ Cardinality({c \in Conns : conn[c] # "unused"}) = 1

(* C29: after handle_message has discarded a decodable frame that is no    *)
(* 5-element list or has another event, the receive loop of that           *)
(* connection is still waiting on its open connection and can take         *)
(* a phx_join and a phx_leave; a phx_join or phx_leave that the same       *)
(* connection receives next, the stored connection being open, gets its    *)
(* phx_reply; and a step of the loop ends the loop only when it raises.    *)
Discarded ==
    /\ last.op = "handle_message"
    /\ Ignorable(last.data)
    /\ last.raised = "none"

C29_DiscardKeepsTheLoop ==
    /\ [](Discarded =>
            /\ pc[last.by] = "recv"
            /\ conn[last.by] = "open"
            /\ ENABLED receive(last.by, JoinText)
            /\ ENABLED receive(last.by, LeaveText))
    /\ [][/\ (/\ Discarded
              /\ last'.op = "handle_message"
              /\ last'.by = last.by
              /\ ~Ignorable(last'.data)
              /\ Attached) =>
                 /\ last'.raised = "none"
                 /\ sent' = Append(sent, [to |-> client_websocket, by |-> last.by,
                                          text |-> ExpectedReply(last'.data)])
                 /\ pc'[last.by] \in {"recv", "leave_close"}
          /\ \A c \in Conns :
                (pc[c] # "done" /\ pc'[c] = "done" /\ last'.op \in LoopOps) =>
                    (last'.by = c /\ last'.raised # "none")
          /\ (last'.op \in LoopOps /\ last'.raised = "none") =>
                pc'[last'.by] # "done"]_vars

C29_Witness ==
    /\ Discarded
    /\ last.data[1] = "dict"
    /\ last.attached
    /\ client_websocket = last.by
    /\ Len(sent) = 1
    /\ sent[1].by = last.by
    /\ ENABLED receive(last.by, LeaveText)

====
